---- MODULE Spec2Model ----
(***************************************************************************)
(* Model of src/point.rs: the integer 3D Point value type, its operators   *)
(* and metrics, the Direction enumeration, and the two iterators           *)
(* PointsBetween and PlaneNeighbours.                                      *)
(*                                                                         *)
(* Coordinates are i64 in the source.  Every input drawn below is a small  *)
(* integer, so no operation of a run comes near the i64 range; the model   *)
(* therefore uses unbounded integers and says nothing about overflow.      *)
(***************************************************************************)
EXTENDS Integers, Sequences, FiniteSets

VARIABLES
    pc,       \* "idle" | "iter" (a PointsBetween is live) | "plane" (a PlaneNeighbours is live)
              \* | "returned" (a plain function returned) | "panicked"
    call,     \* the operation invoked and its arguments: [op, p, q, r, items]
    pb,       \* PointsBetween fields: [current, end, step, done]
    pn,       \* PlaneNeighbours fields: [p, dir_idx]
    ret,      \* the last value returned: an Option<Point> [some, val]
    dist,     \* the last i64 returned (manhattan_distance)
    panic,    \* the panic message, "" when the program has not panicked
    yielded,  \* the points returned as Some(..) by next(), in order
    nones     \* how many times next() has returned None

vars == <<pc, call, pb, pn, ret, dist, panic, yielded, nones>>

----------------------------------------------------------------------------
(* Bounds of the model *)

\* PointsBetween and PlaneNeighbours inputs have coordinates in -MaxCoord..MaxCoord
MaxCoord == 1
\* normalized() is applied to vectors with coordinates in -MaxNorm..MaxNorm
MaxNorm == 4
\* with_step's start lies on the x axis, at -MaxStart..MaxStart
MaxStart == 1
\* a PointsBetween is asked for at most MaxCalls points
MaxCalls == 6
\* next() of an exhausted iterator is called at most MaxNone times
MaxNone == 2
\* from_iter consumes sequences of at most MaxLen items
MaxLen == 4

Box(lo, hi) == [x : lo..hi, y : lo..hi, z : lo..hi]
Points      == Box(-MaxCoord, MaxCoord)
NormPoints  == Box(-MaxNorm, MaxNorm)
StartPoints == [x : -MaxStart..MaxStart, y : {0}, z : {0}]
Items       == {-1, 0, 1}
ItemSeqs    == UNION {[1..n -> Items] : n \in 0..MaxLen}

----------------------------------------------------------------------------
(* Point: the value type and its operators *)

Point(x, y, z) == [x |-> x, y |-> y, z |-> z]

ZERO == Point(0, 0, 0)
I    == Point(1, 0, 0)
J    == Point(0, 1, 0)
K    == Point(0, 0, 1)

add(a, b) == Point(a.x + b.x, a.y + b.y, a.z + b.z)
sub(a, b) == Point(a.x - b.x, a.y - b.y, a.z - b.z)
neg(a)    == Point(-a.x, -a.y, -a.z)

\* Point * i64
mul(self, rhs) == Point(self.x * rhs, self.y * rhs, self.z * rhs)

\* self += rhs
add_assign(self, rhs) == Point(self.x + rhs.x, self.y + rhs.y, self.z + rhs.z)

\* i64::abs
abs(n) == IF n < 0 THEN -n ELSE n

\* variant: the quotient rounded toward minus infinity
FloorDiv(a, b) == a \div b
\* i64 / i64 for a nonzero divisor: the quotient is truncated toward zero
TruncDiv(a, b) ==
    IF b > 0
    THEN (IF a >= 0 THEN a \div b ELSE -((-a) \div b))
    ELSE (IF a >= 0 THEN -(a \div (-b)) ELSE (-a) \div (-b))

\* i64 / i64 panics on a zero divisor
DivPanics(rhs) == rhs = 0

\* Point / i64
div(self, rhs) == Point(TruncDiv(self.x, rhs), TruncDiv(self.y, rhs), TruncDiv(self.z, rhs))

len_squared(self) == self.x * self.x + self.y * self.y + self.z * self.z

\* (n as f64).sqrt() as i64: for 0 <= n < 2^52 the cast is exact, the square
\* root is correctly rounded and the cast back truncates, which gives the
\* integer square root
SqrtAsI64(n) == CHOOSE r \in 0..n : r * r <= n /\ (r + 1) * (r + 1) > n

\* variant: normalized() without its assert!
NoAssert(self) == FALSE
\* the assert! of normalized(): it fires on the zero vector
NormalizedAsserts(self) == self = ZERO

\* the divisor normalized() computes
NormalizedDivisor(self) == SqrtAsI64(len_squared(self))

normalized(self) == div(self, NormalizedDivisor(self))

\* variant: the z difference is not made absolute
manhattan_NoAbs(self, other) ==
    abs(self.x - other.x) + abs(self.y - other.y) + (self.z - other.z)
manhattan_distance(self, other) ==
    abs(self.x - other.x) + abs(self.y - other.y) + abs(self.z - other.z)

\* the i-th call of next() on an iterator over the items s: an Option<i64>
iter_next(s, i) ==
    IF i <= Len(s) THEN [some |-> TRUE, val |-> s[i]] ELSE [some |-> FALSE, val |-> 0]

\* FromIterator<i64>: one of the two unwrap() calls finds None
FromIterPanics(s) == ~iter_next(s, 1).some \/ ~iter_next(s, 2).some

\* variant: z is taken from the last item instead of the third
from_iter_LastAsZ(s) ==
    Point(iter_next(s, 1).val, iter_next(s, 2).val,
          IF iter_next(s, 3).some THEN iter_next(s, Len(s)).val ELSE 0)
\* FromIterator<i64>: x and y are unwrapped, z is unwrap_or(0)
from_iter(s) ==
    Point(iter_next(s, 1).val, iter_next(s, 2).val,
          IF iter_next(s, 3).some THEN iter_next(s, 3).val ELSE 0)

----------------------------------------------------------------------------
(* Option<Point> *)

None    == [some |-> FALSE, val |-> ZERO]
Some(v) == [some |-> TRUE, val |-> v]

----------------------------------------------------------------------------
(* Direction *)

PLANE == <<"PosX", "NegX", "PosY", "NegY">>

to_point(d) ==
    CASE d = "PosX" -> I
      [] d = "NegX" -> neg(I)
      [] d = "PosY" -> J
      [] d = "NegY" -> neg(J)
      [] d = "PosZ" -> K
      [] d = "NegZ" -> neg(K)

----------------------------------------------------------------------------
(* PointsBetween *)

NoIter == [current |-> ZERO, end |-> ZERO, step |-> ZERO, done |-> FALSE]

\* variant: the target is end itself, which makes the range exclusive
new_ExclusiveEnd(start, end) ==
    LET step == normalized(sub(end, start))
    IN  [current |-> start, end |-> end, step |-> step, done |-> FALSE]
\* PointsBetween::new, for start # end
PointsBetween_new(start, end) ==
    LET step == normalized(sub(end, start))
    IN  [current |-> start, end |-> add(end, step), step |-> step, done |-> FALSE]

\* variant: the target is end itself
with_step_EndNotAdjusted(start, end, step) ==
    [current |-> start, end |-> end, step |-> step, done |-> FALSE]
\* PointsBetween::with_step
PointsBetween_with_step(start, end, step) ==
    [current |-> start, end |-> add(end, step), step |-> step, done |-> FALSE]

\* variant: exhaustion is tested before the point is taken and advanced
next_CheckBeforeAdvance(self) ==
    IF self.done \/ self.current = self.end
    THEN [self |-> [self EXCEPT !.done = TRUE], ret |-> None]
    ELSE [self |-> [self EXCEPT !.current = add_assign(self.current, self.step)],
          ret  |-> Some(self.current)]
\* variant: an exhausted iterator still advances current
next_AdvanceWhenDone(self) ==
    LET current  == self.current
        advanced == add_assign(self.current, self.step)
    IN  IF self.done
        THEN [self |-> [self EXCEPT !.current = advanced], ret |-> None]
        ELSE [self |-> [self EXCEPT !.current = advanced,
                                    !.done = (advanced = self.end)],
              ret  |-> Some(current)]
\* Iterator::next: the iterator after the call and the value returned
PointsBetween_next(self) ==
    IF self.done
    THEN [self |-> self, ret |-> None]
    ELSE LET current  == self.current
             advanced == add_assign(self.current, self.step)
         IN  [self |-> [self EXCEPT !.current = advanced,
                                    !.done = (advanced = self.end)],
              ret  |-> Some(current)]

----------------------------------------------------------------------------
(* PlaneNeighbours *)

NoPlane == [p |-> ZERO, dir_idx |-> 0]

PlaneNeighbours_new(p) == [p |-> p, dir_idx |-> 0]

\* variant: the index is advanced before the direction is read
plane_next_SkipFirst(self) ==
    [self |-> [self EXCEPT !.dir_idx = self.dir_idx + 1],
     ret  |-> IF self.dir_idx + 1 < Len(PLANE)
              THEN Some(add(self.p, to_point(PLANE[self.dir_idx + 2])))
              ELSE None]
\* Direction::plane().get(dir_idx).map(|d| *p + d.to_point()); dir_idx += 1
PlaneNeighbours_next(self) ==
    [self |-> [self EXCEPT !.dir_idx = self.dir_idx + 1],
     ret  |-> IF self.dir_idx < Len(PLANE)
              THEN Some(add(self.p, to_point(PLANE[self.dir_idx + 1])))
              ELSE None]

----------------------------------------------------------------------------
(* The state machine *)

NoCall == [op |-> "none", p |-> ZERO, q |-> ZERO, r |-> ZERO, items |-> <<>>]

Call(op, p, q, r, items) == [op |-> op, p |-> p, q |-> q, r |-> r, items |-> items]

Init ==
    /\ pc = "idle"
    /\ call = NoCall
    /\ pb = NoIter
    /\ pn = NoPlane
    /\ ret = None
    /\ dist = 0
    /\ panic = ""
    /\ yielded = <<>>
    /\ nones = 0

Panic(msg) ==
    /\ pc' = "panicked"
    /\ panic' = msg

\* PointsBetween::new(start, end), also reached through start.points_between(&end)
New(start, end) ==
    /\ pc = "idle"
    /\ call' = Call("new", start, end, ZERO, <<>>)
    /\ IF NormalizedAsserts(sub(end, start))
       THEN Panic("Cannot normalize zero vector!") /\ pb' = pb
       ELSE IF DivPanics(NormalizedDivisor(sub(end, start)))
       THEN Panic("attempt to divide by zero") /\ pb' = pb
       ELSE /\ pc' = "iter"
            /\ pb' = PointsBetween_new(start, end)
            /\ panic' = panic
    /\ UNCHANGED <<pn, ret, dist, yielded, nones>>

\* PointsBetween::with_step(start, end, step)
WithStep(start, end, step) ==
    /\ pc = "idle"
    /\ call' = Call("with_step", start, end, step, <<>>)
    /\ pc' = "iter"
    /\ pb' = PointsBetween_with_step(start, end, step)
    /\ UNCHANGED <<pn, ret, dist, panic, yielded, nones>>

\* <PointsBetween as Iterator>::next
PBNext ==
    /\ pc = "iter"
    /\ LET res == PointsBetween_next(pb)
       IN  /\ pb' = res.self
           /\ ret' = res.ret
           /\ IF res.ret.some
              THEN /\ Len(yielded) < MaxCalls
                   /\ yielded' = Append(yielded, res.ret.val)
                   /\ nones' = nones
              ELSE /\ nones < MaxNone
                   /\ yielded' = yielded
                   /\ nones' = nones + 1
    /\ UNCHANGED <<pc, call, pn, dist, panic>>

\* p.plane_neighbors()
PlaneNeighbors(p) ==
    /\ pc = "idle"
    /\ call' = Call("plane_neighbors", p, ZERO, ZERO, <<>>)
    /\ pc' = "plane"
    /\ pn' = PlaneNeighbours_new(p)
    /\ UNCHANGED <<pb, ret, dist, panic, yielded, nones>>

\* <PlaneNeighbours as Iterator>::next
PNNext ==
    /\ pc = "plane"
    /\ LET res == PlaneNeighbours_next(pn)
       IN  /\ pn' = res.self
           /\ ret' = res.ret
           /\ IF res.ret.some
              THEN /\ yielded' = Append(yielded, res.ret.val)
                   /\ nones' = nones
              ELSE /\ nones < MaxNone
                   /\ yielded' = yielded
                   /\ nones' = nones + 1
    /\ UNCHANGED <<pc, call, pb, dist, panic>>

\* v.normalized()
Normalized(v) ==
    /\ pc = "idle"
    /\ call' = Call("normalized", v, ZERO, ZERO, <<>>)
    /\ IF NormalizedAsserts(v)
       THEN Panic("Cannot normalize zero vector!") /\ ret' = ret
       ELSE IF DivPanics(NormalizedDivisor(v))
       THEN Panic("attempt to divide by zero") /\ ret' = ret
       ELSE /\ pc' = "returned"
            /\ ret' = Some(normalized(v))
            /\ panic' = panic
    /\ UNCHANGED <<pb, pn, dist, yielded, nones>>

\* a.manhattan_distance(&b)
ManhattanDistance(a, b) ==
    /\ pc = "idle"
    /\ call' = Call("manhattan_distance", a, b, ZERO, <<>>)
    /\ pc' = "returned"
    /\ dist' = manhattan_distance(a, b)
    /\ UNCHANGED <<pb, pn, ret, panic, yielded, nones>>

\* Point::from_iter(s), also reached through s.collect()
FromIter(s) ==
    /\ pc = "idle"
    /\ call' = Call("from_iter", ZERO, ZERO, ZERO, s)
    /\ IF FromIterPanics(s)
       THEN Panic("called Option::unwrap() on a None value") /\ ret' = ret
       ELSE /\ pc' = "returned"
            /\ ret' = Some(from_iter(s))
            /\ panic' = panic
    /\ UNCHANGED <<pb, pn, dist, yielded, nones>>

\* The callers: each operation is invoked on arguments drawn from the input sets
CallNew ==
    pc = "idle" /\ \E start \in Points, end \in Points : New(start, end)
CallWithStep ==
    pc = "idle" /\ \E start \in StartPoints, end \in Points, step \in Points :
                      WithStep(start, end, step)
CallPlaneNeighbors ==
    pc = "idle" /\ \E p \in Points : PlaneNeighbors(p)
CallNormalized ==
    pc = "idle" /\ \E v \in NormPoints : Normalized(v)
CallManhattanDistance ==
    pc = "idle" /\ \E a \in Points, b \in Points : ManhattanDistance(a, b)
CallFromIter ==
    pc = "idle" /\ \E s \in ItemSeqs : FromIter(s)

Next ==
    \/ CallNew
    \/ CallWithStep
    \/ PBNext
    \/ CallPlaneNeighbors
    \/ PNNext
    \/ CallNormalized
    \/ CallManhattanDistance
    \/ CallFromIter

Spec == Init /\ [][Next]_vars

----------------------------------------------------------------------------
(* Vocabulary of the properties *)

Max2(a, b) == IF a >= b THEN a ELSE b
Min2(a, b) == IF a <= b THEN a ELSE b
Sgn(n)     == IF n > 0 THEN 1 ELSE IF n < 0 THEN -1 ELSE 0

\* the largest absolute coordinate of v
Linf(v) == Max2(abs(v.x), Max2(abs(v.y), abs(v.z)))

\* v lies on one axis: exactly one coordinate is nonzero
AxisAligned(v) ==
    \/ v.x # 0 /\ v.y = 0 /\ v.z = 0
    \/ v.x = 0 /\ v.y # 0 /\ v.z = 0
    \/ v.x = 0 /\ v.y = 0 /\ v.z # 0

\* the signed unit vector along an axis-aligned v
UnitOf(v) == Point(Sgn(v.x), Sgn(v.y), Sgn(v.z))

\* s is a prefix of e
IsPrefix(s, e) == Len(s) <= Len(e) /\ \A i \in 1..Len(s) : s[i] = e[i]

IsNew      == call.op = "new"
IsWithStep == call.op = "with_step"
Delta      == sub(call.q, call.p)

----------------------------------------------------------------------------
(* PointsBetween::new *)

\* the k+1 points start, start+u, ..., end of an axis-aligned segment
SegmentPoints(start, u, k) == [i \in 1..(k + 1) |-> add(start, mul(u, i - 1))]

\* C1: for an axis-aligned pair start # end, with end - start = k*u, the
\* iterator of PointsBetween::new(start, end) yields exactly the k+1 points
\* start, start+u, ..., end, each once and in that order; it is exhausted
\* exactly when all k+1 have been yielded, and the calls after that return None.
C1_AxisAlignedSegment ==
    (IsNew /\ AxisAligned(Delta)) =>
        LET k        == Linf(Delta)
            expected == SegmentPoints(call.p, UnitOf(Delta), k)
        IN  /\ pc = "iter"
            /\ IsPrefix(yielded, expected)
            /\ pb.done <=> (Len(yielded) = k + 1)
            /\ nones > 0 => (yielded = expected /\ ~ret.some)

C1_Witness ==
    /\ IsNew
    /\ AxisAligned(Delta)
    /\ Linf(Delta) = 2
    /\ Len(yielded) = 3
    /\ yielded[1] = call.p
    /\ yielded[3] = call.q
    /\ nones >= 1

\* C2: for every pair start # end, axis-aligned or not, the iterator of
\* PointsBetween::new(start, end) yields end and then terminates.  The points
\* yielded are start + i*step for an integer step, so a sequence that reaches
\* end has done so within Linf(end - start) + 1 points: once that many points
\* have been yielded, the last of them is end and the iterator is exhausted.
C2_EveryPairReachesEnd ==
    (IsNew /\ pc = "iter" /\ Len(yielded) >= Linf(Delta) + 1) =>
        /\ pb.done
        /\ yielded[Len(yielded)] = call.q

\* C3: PointsBetween::new(p, p) aborts on the zero-vector assertion of
\* normalized(); no iterator is created and no point is yielded.
C3_ZeroLengthAborts ==
    (IsNew /\ call.p = call.q) =>
        /\ pc = "panicked"
        /\ panic = "Cannot normalize zero vector!"
        /\ pb = NoIter
        /\ yielded = <<>>
        /\ nones = 0
        /\ ret = None

C3_Witness ==
    /\ IsNew
    /\ call.p = call.q
    /\ pc = "panicked"

----------------------------------------------------------------------------
(* PlaneNeighbours *)

\* C4: the iterator of p.plane_neighbors() yields exactly the four points
\* p+(1,0,0), p+(-1,0,0), p+(0,1,0), p+(0,-1,0), in that order, and every
\* call after the fourth returns None.
C4_FourPlaneNeighbours ==
    (call.op = "plane_neighbors") =>
        LET p        == call.p
            expected == << Point(p.x + 1, p.y, p.z), Point(p.x - 1, p.y, p.z),
                           Point(p.x, p.y + 1, p.z), Point(p.x, p.y - 1, p.z) >>
        IN  /\ pc = "plane"
            /\ pn.p = p
            /\ IsPrefix(yielded, expected)
            /\ Len(yielded) = Min2(pn.dir_idx, 4)
            /\ nones = Max2(pn.dir_idx - 4, 0)
            /\ pn.dir_idx > 4 => ~ret.some
            /\ (pn.dir_idx >= 1 /\ pn.dir_idx <= 4) => ret = Some(expected[pn.dir_idx])

C4_Witness ==
    /\ call.op = "plane_neighbors"
    /\ Len(yielded) = 4
    /\ nones = 2
    /\ ~ret.some

----------------------------------------------------------------------------
(* PointsBetween::with_step *)

\* the integers n >= 1 with start + n*step = target.  For a nonzero step
\* such an n is at most Linf(target - start); for a zero step every n does
\* when start = target, so 1 is the smallest.
ReachCounts(start, target, step) ==
    {n \in 1..(Linf(sub(target, start)) + 1) : add(start, mul(step, n)) = target}

SmallestOf(S) == CHOOSE n \in S : \A m \in S : n <= m

\* C5: the iterator of with_step(start, end, step) terminates iff there is
\* an integer n >= 1 with start + n*step = end + step; it then yields exactly
\* n points for the smallest such n.  When there is no such n, every call
\* returns Some and the iterator is never exhausted.
C5_WithStepTermination ==
    IsWithStep =>
        LET counts == ReachCounts(call.p, add(call.q, call.r), call.r)
        IN  IF counts # {}
            THEN /\ Len(yielded) <= SmallestOf(counts)
                 /\ pb.done <=> (Len(yielded) = SmallestOf(counts))
                 /\ nones > 0 => pb.done
            ELSE /\ ~pb.done
                 /\ nones = 0
                 /\ (Len(yielded) > 0 => ret.some)

C5_Witness ==
    /\ IsWithStep
    /\ call.r # ZERO
    /\ ReachCounts(call.p, add(call.q, call.r), call.r) = {3}
    /\ Len(yielded) = 3
    /\ nones >= 1

\* a mismatched step: the iterator is still yielding after MaxCalls points
C5_WitnessDivergent ==
    /\ IsWithStep
    /\ ReachCounts(call.p, add(call.q, call.r), call.r) = {}
    /\ Len(yielded) = MaxCalls
    /\ ~pb.done

----------------------------------------------------------------------------
(* Point::normalized *)

\* q is a / d truncated toward zero, for d >= 1
IsTruncatedQuotient(a, d, q) ==
    /\ abs(q) * d <= abs(a)
    /\ abs(a) < (abs(q) + 1) * d
    /\ q # 0 => Sgn(q) = Sgn(a)

\* d is floor(sqrt(n))
IsFloorSqrt(n, d) == d >= 0 /\ d * d <= n /\ n < (d + 1) * (d + 1)

C6_WitnessAxis ==
    /\ call.op = "normalized"
    /\ call.p = Point(4, 0, 0)
    /\ ret = Some(Point(1, 0, 0))

----------------------------------------------------------------------------
(* Point::manhattan_distance *)

\* C7: manhattan_distance(a, b) = manhattan_distance(b, a), and
\* manhattan_distance(a, b) = 0 iff a = b.
C7_ManhattanSymmetricZeroIffEqual ==
    (call.op = "manhattan_distance") =>
        /\ pc = "returned"
        /\ dist = manhattan_distance(call.q, call.p)
        /\ (dist = 0) <=> (call.p = call.q)

C7_Witness ==
    /\ call.op = "manhattan_distance"
    /\ call.p.z < call.q.z
    /\ call.p.x > call.q.x
    /\ dist = 3

----------------------------------------------------------------------------
(* FromIterator<i64> for Point *)

\* C8: a Point built from the items s is (s[1], s[2], s[3]) when s has three
\* or more items, the further ones being ignored; it is (s[1], s[2], 0) when
\* s has exactly two; with fewer than two the construction aborts and no
\* Point is produced.
C8_FromIter ==
    (call.op = "from_iter") =>
        LET s == call.items
        IN  /\ Len(s) >= 3 =>
                (pc = "returned" /\ ret = Some(Point(s[1], s[2], s[3])))
            /\ Len(s) = 2 =>
                (pc = "returned" /\ ret = Some(Point(s[1], s[2], 0)))
            /\ Len(s) < 2 =>
                (pc = "panicked" /\ ~ret.some)

C8_Witness ==
    /\ call.op = "from_iter"
    /\ Len(call.items) = 4
    /\ call.items[4] # call.items[3]
    /\ pc = "returned"
    /\ ret.val.z = call.items[3]

\* the two other cases: exactly two items, and fewer than two
C8_WitnessTwo ==
    /\ call.op = "from_iter"
    /\ Len(call.items) = 2
    /\ ret = Some(Point(1, -1, 0))

C8_WitnessAbort ==
    /\ call.op = "from_iter"
    /\ Len(call.items) = 1
    /\ pc = "panicked"

----------------------------------------------------------------------------
(* PointsBetween: Iterator::next *)

\* C9: the exhausted state is absorbing.  Once next() has returned None the
\* iterator is exhausted, and every later call returns None again, yields
\* nothing and leaves current, end, step and done as they were.
C9_ExhaustedIsAbsorbing ==
    [][ (pc = "iter" /\ nones > 0) =>
            /\ pb.done
            /\ pb' = pb
            /\ ~ret'.some
            /\ yielded' = yielded ]_vars

C9_Witness ==
    /\ pc = "iter"
    /\ nones = 2
    /\ pb.done
    /\ Len(yielded) >= 2

\* C10: next() never changes end (the adjusted target end + step) nor step;
\* after m calls that returned Some, current = start + m*step and the i-th
\* point yielded (from 0) is start + i*step; and the exhausted flag is
\* examined only after advancing, so the first call returns Some(start), also
\* when start equals the adjusted target.
C10_WalkInvariant ==
    (pc = "iter") =>
        LET start == call.p
            step  == IF IsWithStep THEN call.r ELSE normalized(Delta)
            m     == Len(yielded)
        IN  /\ pb.step = step
            /\ pb.end = add(call.q, step)
            /\ pb.current = add(start, mul(step, m))
            /\ \A i \in 1..m : yielded[i] = add(start, mul(step, i - 1))
            /\ (pb.done \/ nones > 0) => m >= 1

C10_Witness ==
    /\ IsWithStep
    /\ call.r # ZERO
    /\ call.p = add(call.q, call.r)
    /\ Len(yielded) = 2
    /\ yielded[1] = call.p
    /\ ~pb.done

====
